---- MODULE Spec2Model ----
(***************************************************************************)
(* A model of the wordle-solver core: Letter / LetterSet / LetterMap /     *)
(* Word / Filter (words.rs), LetterStats (stats.rs), Game (game.rs) and    *)
(* Simulation (simulation.rs).                                             *)
(*                                                                         *)
(* Letters are 0..25 as in Letter(u8); a LetterSet is the set of letters   *)
(* whose bit is set; a LetterMap is a function over the 26 letters; a Word *)
(* is a 5-tuple of letters.  Positions are 1..5 here and 0..4 in the code. *)
(***************************************************************************)
EXTENDS Integers, Sequences, FiniteSets, TLC

\* ------------------------------------------------------------ bounds
\* How many words of WordsFile make up the dictionary.
DictSize == 40
\* How many words of GuessTexts a caller may type as a guess.
NumGuessWords == 2
\* How many apply_feedback rounds a caller of Game makes.
MaxRounds == 2
\* How many rounds are played against the feedback oracle with free guesses.
MaxOracleRounds == 3
\* How many words of the dictionary are played as free guesses against the oracle.
NumOracleGuesses == 5
\* How many secrets outside the dictionary simulations are made for.
NumExtraSecrets == 2

\* the largest number of suggestions asked of suggested_words
MaxSuggested == 3

\* the events handled by the App, and the characters typed (the first
\* NumAppChars of AppChars)
MaxEvents == 8

NumAppChars == 2

\* the texts given to Word::try_from: up to MaxTextLen characters, each one of
\* the first NumTextChars of TextChars
MaxTextLen == 6

NumTextChars == 4

\* the Simulation instances stepped in turn, and the secrets they are made for
NumSims == 2

NumSimSecrets == 3

\* ------------------------------------------------------------ words.rs
WordLen == 5

NumLetters == 26

Alphabet ==
  << "a", "b", "c", "d", "e", "f", "g", "h", "i", "j", "k", "l", "m",
     "n", "o", "p", "q", "r", "s", "t", "u", "v", "w", "x", "y", "z" >>

Letters == 0 .. (NumLetters - 1)

Positions == 1 .. WordLen

\* Letter::new: (letter as u8) - b'a'
LetterNew(ch) == (CHOOSE i \in 1 .. NumLetters : Alphabet[i] = ch) - 1

\* impl From<Letter> for char: (value.0 + b'a') as char
CharFrom(letter) == Alphabet[letter + 1]

\* LetterSet::EMPTY and LetterSet::FULL (0x3FFFFFF: the 26 low bits)
EMPTY == {}

FULL == Letters

\* LetterSet::contains
Contains(set, letter) == letter \in set

\* LetterSet::remove (the new value of the set)
Remove(set, letter) == set \ {letter}

\* impl From<[Letter; N]> for LetterSet, for N = 1
LetterSetFrom1(letter) == {letter}

\* impl From<Word> for LetterSet
LetterSetFromWord(word) == {word[p] : p \in Positions}

\* LetterMap::default for the integer maps
LetterMapDefault == [l \in Letters |-> 0]

\* the text of a word of the words file or of a test, parsed by
\* Word::try_from(..).unwrap()
WordOf(text) == [p \in Positions |-> LetterNew(text[p])]

\* impl Display for Word
WordText(word) == [p \in Positions |-> CharFrom(word[p])]

\* the characters texts are made of: lowercase letters, an uppercase letter,
\* characters next to the letters in ASCII, a digit
TextChars == << "a", "z", "A", "{", "_", "e", "1" >>

\* char as u32
CharCode(ch) ==
  IF \E i \in 1 .. NumLetters : Alphabet[i] = ch
  THEN 96 + (CHOOSE i \in 1 .. NumLetters : Alphabet[i] = ch)
  ELSE CASE ch = "A" -> 65
         [] ch = "_" -> 95
         [] ch = "{" -> 123
         [] ch = "1" -> 49

\* a test that lets uppercase letters through as well
IsAsciiAlphabetic(ch) ==
  CharCode(ch) \in 97 .. 122 \/ CharCode(ch) \in 65 .. 90

\* char::is_ascii_lowercase
IsAsciiLowercase(ch) == CharCode(ch) \in 97 .. 122

\* Result: Ok(value) and Err(report)
Ok(value) == [kind |-> "Ok", value |-> value, error |-> ""]

Err(report) == [kind |-> "Err", value |-> << >>, error |-> report]

\* impl TryFrom<char> for Letter
LetterTryFrom(value) ==
  IF ~IsAsciiLowercase(value)
  THEN Err("invalid letter range")
  ELSE Ok(CharCode(value) - 97)

\* impl TryFrom<&str> for Word: the letters are collected up to the first
\* character that is not one, then the Vec is turned into the array of 5
WordTryFrom(value) ==
  LET results == [k \in 1 .. Len(value) |-> LetterTryFrom(value[k])]
      failed == {k \in 1 .. Len(value) : results[k].kind = "Err"}
  IN  IF failed # {}
      THEN results[CHOOSE k \in failed : \A j \in failed : k <= j]
      ELSE IF Len(value) # WordLen
           THEN Err("words must have length 5")
           ELSE Ok([p \in Positions |-> results[p].value])

RECURSIVE LetterCountLoop(_, _, _)
LetterCountLoop(word, p, count) ==
  IF p > WordLen THEN count
  ELSE LetterCountLoop(word, p + 1, [count EXCEPT ![word[p]] = @ + 1])

\* Word::letter_count
LetterCount(word) == LetterCountLoop(word, 1, LetterMapDefault)

\* matches demanding more occurrences than the minimum
MatchesStrict(w, filter) ==
  IF ~ (\A p \in Positions : Contains(filter.mask[p], w[p]))
  THEN FALSE
  ELSE LET actual == LetterCount(w)
       IN  \A l \in Letters : filter.min_count[l] > 0 => actual[l] > filter.min_count[l]

\* Word::matches
Matches(word, filter) ==
  IF ~ (\A p \in Positions : Contains(filter.mask[p], word[p]))
  THEN FALSE
  ELSE LET actual == LetterCount(word)
       IN  \A l \in Letters : actual[l] >= filter.min_count[l]

Black == "Black"

Yellow == "Yellow"

Green == "Green"

Feedback == {Black, Yellow, Green}

FeedbackArrays == [Positions -> Feedback]

AllGreen == [p \in Positions |-> Green]

\* Filter::default
FilterDefault == [mask |-> [p \in Positions |-> FULL], min_count |-> LetterMapDefault]

\* Filter::restrict without the running tally: Black always removes the letter
\* from every mask
RestrictPosNoTally(acc, pos, letter, feedback) ==
  CASE feedback = Green ->
         [mask |-> [acc.mask EXCEPT ![pos] = LetterSetFrom1(letter)],
          min_count |-> [acc.min_count EXCEPT ![letter] = @ + 1]]
    [] feedback = Yellow ->
         [mask |-> [acc.mask EXCEPT ![pos] = Remove(@, letter)],
          min_count |-> [acc.min_count EXCEPT ![letter] = @ + 1]]
    [] feedback = Black ->
         [mask |-> [q \in Positions |-> Remove(acc.mask[q], letter)],
          min_count |-> acc.min_count]

\* Filter::restrict whose Yellow inserts the letter into the mask of its
\* position instead of removing it
RestrictPosYellowInserts(acc, pos, letter, feedback) ==
  CASE feedback = Green ->
         [mask |-> [acc.mask EXCEPT ![pos] = LetterSetFrom1(letter)],
          min_count |-> [acc.min_count EXCEPT ![letter] = @ + 1]]
    [] feedback = Yellow ->
         [mask |-> [acc.mask EXCEPT ![pos] = @ \cup {letter}],
          min_count |-> [acc.min_count EXCEPT ![letter] = @ + 1]]
    [] feedback = Black ->
         IF acc.min_count[letter] > 0
         THEN [mask |-> [acc.mask EXCEPT ![pos] = Remove(@, letter)],
               min_count |-> acc.min_count]
         ELSE [mask |-> [q \in Positions |-> Remove(acc.mask[q], letter)],
               min_count |-> acc.min_count]

\* Filter::restrict whose Green intersects the mask with the letter instead of
\* assigning the singleton
RestrictPosGreenIntersects(acc, pos, letter, feedback) ==
  CASE feedback = Green ->
         [mask |-> [acc.mask EXCEPT ![pos] = @ \cap LetterSetFrom1(letter)],
          min_count |-> [acc.min_count EXCEPT ![letter] = @ + 1]]
    [] feedback = Yellow ->
         [mask |-> [acc.mask EXCEPT ![pos] = Remove(@, letter)],
          min_count |-> [acc.min_count EXCEPT ![letter] = @ + 1]]
    [] feedback = Black ->
         IF acc.min_count[letter] > 0
         THEN [mask |-> [acc.mask EXCEPT ![pos] = Remove(@, letter)],
               min_count |-> acc.min_count]
         ELSE [mask |-> [q \in Positions |-> Remove(acc.mask[q], letter)],
               min_count |-> acc.min_count]

\* Filter::restrict whose Yellow only counts the letter and leaves the mask
RestrictPosYellowKeeps(acc, pos, letter, feedback) ==
  CASE feedback = Green ->
         [mask |-> [acc.mask EXCEPT ![pos] = LetterSetFrom1(letter)],
          min_count |-> [acc.min_count EXCEPT ![letter] = @ + 1]]
    [] feedback = Yellow ->
         [mask |-> acc.mask,
          min_count |-> [acc.min_count EXCEPT ![letter] = @ + 1]]
    [] feedback = Black ->
         IF acc.min_count[letter] > 0
         THEN [mask |-> [acc.mask EXCEPT ![pos] = Remove(@, letter)],
               min_count |-> acc.min_count]
         ELSE [mask |-> [q \in Positions |-> Remove(acc.mask[q], letter)],
               min_count |-> acc.min_count]

\* Filter::restrict whose Green only counts the letter and leaves the mask
RestrictPosGreenKeeps(acc, pos, letter, feedback) ==
  CASE feedback = Green ->
         [mask |-> acc.mask,
          min_count |-> [acc.min_count EXCEPT ![letter] = @ + 1]]
    [] feedback = Yellow ->
         [mask |-> [acc.mask EXCEPT ![pos] = Remove(@, letter)],
          min_count |-> [acc.min_count EXCEPT ![letter] = @ + 1]]
    [] feedback = Black ->
         IF acc.min_count[letter] > 0
         THEN [mask |-> [acc.mask EXCEPT ![pos] = Remove(@, letter)],
               min_count |-> acc.min_count]
         ELSE [mask |-> [q \in Positions |-> Remove(acc.mask[q], letter)],
               min_count |-> acc.min_count]

\* one iteration of the loop of Filter::restrict; acc.mask is self.mask and
\* acc.min_count is the local min_count of this call
RestrictPos(acc, pos, letter, feedback) ==
  CASE feedback = Green ->
         [mask |-> [acc.mask EXCEPT ![pos] = LetterSetFrom1(letter)],
          min_count |-> [acc.min_count EXCEPT ![letter] = @ + 1]]
    [] feedback = Yellow ->
         [mask |-> [acc.mask EXCEPT ![pos] = Remove(@, letter)],
          min_count |-> [acc.min_count EXCEPT ![letter] = @ + 1]]
    [] feedback = Black ->
         IF acc.min_count[letter] > 0
         THEN [mask |-> [acc.mask EXCEPT ![pos] = Remove(@, letter)],
               min_count |-> acc.min_count]
         ELSE [mask |-> [q \in Positions |-> Remove(acc.mask[q], letter)],
               min_count |-> acc.min_count]

RECURSIVE RestrictLoop(_, _, _, _)
RestrictLoop(acc, word, feedback, pos) ==
  IF pos > WordLen THEN acc
  ELSE RestrictLoop(RestrictPos(acc, pos, word[pos], feedback[pos]), word, feedback, pos + 1)

Max(a, b) == IF a >= b THEN a ELSE b

\* a merge that adds the round's counts to the recorded ones
MergeMinCountAdding(cur, new) == [l \in Letters |-> cur[l] + new[l]]

\* a merge that keeps the round's counts only
MergeMinCountReplacing(cur, new) == new

\* the final merge of Filter::restrict: *cur = (*cur).max(*new)
MergeMinCount(cur, new) == [l \in Letters |-> Max(cur[l], new[l])]

\* Filter::restrict
Restrict(filter, word, feedback) ==
  LET acc == RestrictLoop([mask |-> filter.mask, min_count |-> LetterMapDefault],
                          word, feedback, 1)
  IN  [mask |-> acc.mask, min_count |-> MergeMinCount(filter.min_count, acc.min_count)]

\* the words file (include_str!("../words")), here a short list of words
WordsFile ==
  <<
    <<"s","p","e","e","d">>, <<"e","i","d","e","r">>, <<"r","e","a","d","y">>,
    <<"e","l","i","d","e">>, <<"c","i","d","e","r">>, <<"c","a","r","d","i">>,
    <<"b","a","r","d","s">>, <<"r","a","c","e","d">>, <<"c","r","e","e","d">>,
    <<"d","r","e","a","d">>, <<"t","i","r","e","d">>, <<"t","r","i","e","d">>,
    <<"c","r","a","n","e">>, <<"s","l","a","t","e">>, <<"t","r","a","c","e">>,
    <<"r","e","a","c","t">>, <<"o","l","d","e","r">>, <<"e","l","d","e","r">>,
    <<"s","h","e","e","p">>, <<"s","t","e","e","p">>, <<"s","p","a","d","e">>,
    <<"s","p","e","n","d">>, <<"t","e","p","i","d">>, <<"d","i","n","e","r">>,
    <<"c","r","i","e","d">>, <<"p","r","i","d","e">>, <<"d","r","i","e","d">>,
    <<"a","d","d","e","d">>, <<"a","b","b","e","y">>, <<"e","e","r","i","e">>,
    <<"g","e","e","s","e">>, <<"a","l","l","a","y">>, <<"l","l","a","m","a">>,
    <<"d","a","d","d","y">>, <<"s","p","l","i","t">>, <<"b","o","u","g","h">>,
    <<"r","e","a","d","s">>, <<"s","t","e","e","d">>, <<"r","i","c","e","d">>,
    <<"d","i","c","e","r">>, <<"e","r","r","e","d">>, <<"m","a","m","m","a">>,
    <<"c","r","a","t","e">>, <<"s","a","l","a","d">>
  >>

\* Word::list
WordList == [i \in 1 .. DictSize |-> WordOf(WordsFile[i])]

\* the words a caller types as guesses
GuessTexts ==
  <<
    <<"r","e","a","d","y">>, <<"s","p","e","e","d">>, <<"e","e","r","i","e">>,
    <<"e","l","i","d","e">>
  >>

GuessWords == {WordOf(GuessTexts[i]) : i \in 1 .. NumGuessWords}

\* ------------------------------------------------------------ stats.rs
\* the number of occurrences of a letter in a word
CountOf(w, letter) == Cardinality({p \in Positions : w[p] = letter})

RECURSIVE FromIterLoop(_, _, _)
FromIterLoop(words, i, stats) ==
  IF i > Len(words) THEN stats
  ELSE LET letters == LetterSetFromWord(words[i])
       IN  FromIterLoop(words, i + 1,
             [total |-> stats.total + 1,
              counts |-> [x \in Letters |-> [y \in Letters |->
                            IF x \in letters /\ y \in letters
                            THEN stats.counts[x][y] + 1
                            ELSE stats.counts[x][y]]]])

\* LetterStats::default
LetterStatsDefault == [total |-> 0, counts |-> [x \in Letters |-> LetterMapDefault]]

\* impl FromIterator<Word> for LetterStats
FromIter(words) == FromIterLoop(words, 1, LetterStatsDefault)

\* remove_word decrementing once per letter of the word, repeated or not
RemoveWordPerOccurrence(stats, w) ==
  [total |-> stats.total - 1,
   counts |-> [x \in Letters |-> [y \in Letters |->
                 stats.counts[x][y] - CountOf(w, x) * CountOf(w, y)]]]

\* LetterStats::remove_word
RemoveWord(stats, word) ==
  LET letters == LetterSetFromWord(word)
  IN  [total |-> stats.total - 1,
       counts |-> [x \in Letters |-> [y \in Letters |->
                     IF x \in letters /\ y \in letters
                     THEN stats.counts[x][y] - 1
                     ELSE stats.counts[x][y]]]]

\* u32::abs_diff
AbsDiff(a, b) == IF a >= b THEN a - b ELSE b - a

RECURSIVE SumOver(_, _, _)
SumOver(set, stats, sum) ==
  IF set = {} THEN sum
  ELSE LET letter == CHOOSE l \in set : \A m \in set : l <= m
       IN  SumOver(set \ {letter}, stats,
                   sum + (stats.total - AbsDiff(stats.counts[letter][letter], stats.total \div 2)))

\* relevance adding a term for every position of the word, repeated letters
\* more than once
RelevancePerPosition(stats, w) ==
  LET term(p) == stats.total - AbsDiff(stats.counts[w[p]][w[p]], stats.total \div 2)
  IN  term(1) + term(2) + term(3) + term(4) + term(5)

\* LetterStats::relevance
Relevance(stats, word) == SumOver(LetterSetFromWord(word), stats, 0)

\* ------------------------------------------------------------ game.rs
\* Game::default
GameDefault == [list |-> WordList, filter |-> FilterDefault, stats |-> FromIter(WordList)]

RECURSIVE RetainLoop(_, _, _, _)
\* Vec::retain with the closure of Game::apply_feedback: acc.list collects the
\* retained words in order, acc.stats is self.stats
RetainLoop(old, i, newFilter, acc) ==
  IF i > Len(old) THEN acc
  ELSE LET w == old[i]
           retain == Matches(w, newFilter)
       IN  RetainLoop(old, i + 1, newFilter,
             IF retain
             THEN [list |-> Append(acc.list, w), stats |-> acc.stats]
             ELSE [list |-> acc.list, stats |-> RemoveWord(acc.stats, w)])

\* apply_feedback retaining by the filter as it was before the call
ApplyFeedbackStaleFilter(g, guess, feedback) ==
  LET newFilter == Restrict(g.filter, guess, feedback)
      kept == RetainLoop(g.list, 1, g.filter, [list |-> << >>, stats |-> g.stats])
  IN  [list |-> kept.list, filter |-> newFilter, stats |-> kept.stats]

\* Game::apply_feedback
ApplyFeedback(game, word, feedback) ==
  LET newFilter == Restrict(game.filter, word, feedback)
      kept == RetainLoop(game.list, 1, newFilter, [list |-> <<>>, stats |-> game.stats])
  IN  [list |-> kept.list, filter |-> newFilter, stats |-> kept.stats]

\* Game::words
GameWords(game) == game.list

RECURSIVE KLargestLoop(_, _, _, _)
\* Itertools::k_largest_by_key over the list: the words of largest key,
\* largest first; among words of equal key the one earlier in the list
KLargestLoop(list, key, left, acc) ==
  IF left = 0 \/ Len(acc) = Len(list) THEN acc
  ELSE LET rest == {i \in 1 .. Len(list) : \A k \in 1 .. Len(acc) : acc[k] # i}
           best == CHOOSE i \in rest :
                     /\ \A j \in rest : key[j] <= key[i]
                     /\ \A j \in rest : j < i => key[j] < key[i]
       IN  KLargestLoop(list, key, left - 1, Append(acc, best))

\* suggested_words taking the words of smallest relevance
SuggestedWordsSmallest(g, n) ==
  LET key == [i \in 1 .. Len(g.list) |-> 0 - Relevance(g.stats, g.list[i])]
      picked == KLargestLoop(g.list, key, n, << >>)
  IN  [k \in 1 .. Len(picked) |-> g.list[picked[k]]]

\* Game::suggested_words
SuggestedWords(game, n) ==
  LET key == [i \in 1 .. Len(game.list) |-> Relevance(game.stats, game.list[i])]
      picked == KLargestLoop(game.list, key, n, << >>)
  IN  [k \in 1 .. Len(picked) |-> game.list[picked[k]]]

\* Game::suggested_word: suggested_words(1).next().  k_largest_by_key(1, key)
\* keeps the first word of the list whose key no other word exceeds.
SuggestedWord(game) ==
  IF Len(game.list) = 0 THEN << >>
  ELSE LET best == CHOOSE i \in 1 .. Len(game.list) :
                     /\ \A j \in 1 .. Len(game.list) :
                          Relevance(game.stats, game.list[j]) <= Relevance(game.stats, game.list[i])
                     /\ \A j \in 1 .. (i - 1) :
                          Relevance(game.stats, game.list[j]) < Relevance(game.stats, game.list[i])
       IN  << game.list[best] >>

\* ------------------------------------------------------------ simulation.rs
\* Simulation::new
SimulationNew(secret) ==
  [word |-> secret,
   letter_counts |-> LetterCountLoop(secret, 1, LetterMapDefault),
   game |-> GameDefault]

\* the first pass without its decrement of missing_letters
GreenStepNoDecrement(acc, guessLetter, letter) ==
  IF guessLetter = letter
  THEN [feedback |-> Append(acc.feedback, Green), missing_letters |-> acc.missing_letters]
  ELSE [feedback |-> Append(acc.feedback, Black), missing_letters |-> acc.missing_letters]

\* the closure of the first pass of get_feedback, for one (guess, letter) pair
\* of the zip: acc.feedback is the collected vector, acc.missing_letters the
\* remaining count of each letter of the secret
GreenStep(acc, guessLetter, letter) ==
  IF guessLetter = letter
  THEN [feedback |-> Append(acc.feedback, Green),
        missing_letters |-> [acc.missing_letters EXCEPT ![letter] = @ - 1]]
  ELSE [feedback |-> Append(acc.feedback, Black),
        missing_letters |-> acc.missing_letters]

RECURSIVE GreenPass(_, _, _, _)
GreenPass(guess, secret, p, acc) ==
  IF p > WordLen THEN acc
  ELSE GreenPass(guess, secret, p + 1, GreenStep(acc, guess[p], secret[p]))

\* the second pass without its decrement of missing_letters
YellowStepNoDecrement(acc, p, letter) ==
  IF acc.feedback[p] = Black /\ acc.missing_letters[letter] > 0
  THEN [feedback |-> [acc.feedback EXCEPT ![p] = Yellow],
        missing_letters |-> acc.missing_letters]
  ELSE acc

\* the closure of the second pass of get_feedback, for position p of the zip
YellowStep(acc, p, letter) ==
  IF acc.feedback[p] = Black /\ acc.missing_letters[letter] > 0
  THEN [feedback |-> [acc.feedback EXCEPT ![p] = Yellow],
        missing_letters |-> [acc.missing_letters EXCEPT ![letter] = @ - 1]]
  ELSE acc

RECURSIVE YellowPass(_, _, _)
YellowPass(guess, p, acc) ==
  IF p > WordLen THEN acc
  ELSE YellowPass(guess, p + 1, YellowStep(acc, p, guess[p]))

\* the body of Simulation::get_feedback: the feedback together with the final
\* missing_letters
GetFeedbackRun(secret, counts, guess) ==
  YellowPass(guess, 1,
    GreenPass(guess, secret, 1, [feedback |-> << >>, missing_letters |-> counts]))

\* Simulation::get_feedback
GetFeedback(secret, counts, guess) == GetFeedbackRun(secret, counts, guess).feedback

\* ------------------------------------------------------------ interactive.rs
\* Option<Letter>::None in LetterBlock.contents
NoLetter == 0 - 1

\* LetterBlock::default
LetterBlockDefault == [contents |-> NoLetter, color |-> Black, selected |-> FALSE]

\* Row::default
RowDefault ==
  << LetterBlockDefault, LetterBlockDefault, LetterBlockDefault,
     LetterBlockDefault, LetterBlockDefault >>

\* the App: its fields, the message of the panic that ended it ("" for none)
\* and the number of apply_feedback calls it has made
AppOf(rows, cursor, feedback_mode, g, panic, calls) ==
  [rows |-> rows, cursor |-> cursor, feedback_mode |-> feedback_mode, game |-> g,
   panic |-> panic, calls |-> calls]

Panic(a, message) ==
  AppOf(a.rows, a.cursor, a.feedback_mode, a.game, message, a.calls)

\* the rows with the last one replaced
WithLastRow(rows, row) == [k \in 1 .. Len(rows) |-> IF k = Len(rows) THEN row ELSE rows[k]]

\* a row with the block at a 0-based index replaced
WithBlock(row, index, block) == [p \in Positions |-> IF p = index + 1 THEN block ELSE row[p]]

\* App::last_row / last_row_mut panic on an App with no rows
NoRowMessage == "there is always at least one row"

\* App::set_cursor: row.letters.get_mut(..) skips an index that is out of range
SetCursor(a, new_cursor) ==
  IF a.panic # "" THEN a
  ELSE IF Len(a.rows) = 0 THEN Panic(a, NoRowMessage)
  ELSE LET row == a.rows[Len(a.rows)]
           unselected == [p \in Positions |->
                            IF p = a.cursor + 1
                            THEN [contents |-> row[p].contents, color |-> row[p].color,
                                  selected |-> FALSE]
                            ELSE row[p]]
           selected == [p \in Positions |->
                          IF p = new_cursor + 1
                          THEN [contents |-> unselected[p].contents,
                                color |-> unselected[p].color, selected |-> TRUE]
                          ELSE unselected[p]]
       IN  AppOf(WithLastRow(a.rows, selected), new_cursor, a.feedback_mode, a.game,
                 a.panic, a.calls)

\* App::active_block_mut followed by an assignment to a field of the block:
\* &mut self.last_row_mut().letters[cursor] panics on an index of 5 or more
SetActiveBlock(a, field, value) ==
  IF a.panic # "" THEN a
  ELSE IF Len(a.rows) = 0 THEN Panic(a, NoRowMessage)
  ELSE IF a.cursor >= WordLen THEN Panic(a, "index out of bounds")
  ELSE LET block == a.rows[Len(a.rows)][a.cursor + 1]
           changed == [contents |-> IF field = "contents" THEN value ELSE block.contents,
                       color |-> IF field = "color" THEN value ELSE block.color,
                       selected |-> IF field = "selected" THEN value ELSE block.selected]
       IN  AppOf(WithLastRow(a.rows, WithBlock(a.rows[Len(a.rows)], a.cursor, changed)),
                 a.cursor, a.feedback_mode, a.game, a.panic, a.calls)

\* LetterBlock::cycle_color
CycleColor(color) ==
  CASE color = Black -> Yellow
    [] color = Yellow -> Green
    [] color = Green -> Black

\* self.active_block_mut().cycle_color()
CycleActiveBlock(a) ==
  IF a.panic # "" THEN a
  ELSE IF Len(a.rows) = 0 THEN Panic(a, NoRowMessage)
  ELSE IF a.cursor >= WordLen THEN Panic(a, "index out of bounds")
  ELSE SetActiveBlock(a, "color", CycleColor(a.rows[Len(a.rows)][a.cursor + 1].color))

\* App::fill_suggested_word
FillSuggestedWord(a) ==
  IF a.panic # "" THEN a
  ELSE LET suggestion == SuggestedWord(a.game)
       IN  IF suggestion = << >> THEN a
           ELSE IF Len(a.rows) = 0 THEN Panic(a, NoRowMessage)
           ELSE LET row == a.rows[Len(a.rows)]
                    filled == [p \in Positions |->
                                 [contents |-> suggestion[1][p], color |-> row[p].color,
                                  selected |-> row[p].selected]]
                IN  AppOf(WithLastRow(a.rows, filled), a.cursor, a.feedback_mode, a.game,
                          a.panic, a.calls)

\* App::has_word, for an App that has a row
HasWord(a) == \A p \in Positions : a.rows[Len(a.rows)][p].contents # NoLetter

RECURSIVE ExpectedGreens(_, _, _, _)
\* the second loop of apply_expected_feedback: a position where the words of
\* the pool agree on one letter gets that letter, coloured Green
ExpectedGreens(row, remaining_letters, known_mandatory_letters, p) ==
  IF p > WordLen THEN [row |-> row, known_mandatory_letters |-> known_mandatory_letters]
  ELSE IF Cardinality(remaining_letters[p]) = 1
       THEN LET letter == CHOOSE l \in remaining_letters[p] : TRUE
            IN  ExpectedGreens(
                  [q \in Positions |->
                     IF q = p
                     THEN [contents |-> letter, color |-> Green, selected |-> row[q].selected]
                     ELSE row[q]],
                  remaining_letters, Remove(known_mandatory_letters, letter), p + 1)
       ELSE ExpectedGreens(row, remaining_letters, known_mandatory_letters, p + 1)

\* App::apply_expected_feedback
ApplyExpectedFeedback(a) ==
  IF a.panic # "" THEN a
  ELSE IF Len(a.rows) = 0 THEN Panic(a, NoRowMessage)
  ELSE LET list == a.game.list
           remaining_letters == [p \in Positions |-> {list[i][p] : i \in 1 .. Len(list)}]
           known_mandatory_letters ==
             {l \in FULL : \A i \in 1 .. Len(list) : Contains(LetterSetFromWord(list[i]), l)}
           greens == ExpectedGreens(a.rows[Len(a.rows)], remaining_letters,
                                    known_mandatory_letters, 1)
           row == [p \in Positions |->
                     IF /\ Contains(greens.known_mandatory_letters, greens.row[p].contents)
                        /\ greens.row[p].color = Black
                     THEN [contents |-> greens.row[p].contents, color |-> Yellow,
                           selected |-> greens.row[p].selected]
                     ELSE greens.row[p]]
       IN  AppOf(WithLastRow(a.rows, row), a.cursor, a.feedback_mode, a.game,
                 a.panic, a.calls)

\* App::new
AppNew ==
  FillSuggestedWord(
    SetActiveBlock(AppOf(<< RowDefault >>, 0, FALSE, GameDefault, "", 0), "selected", TRUE))

\* KeyCode values: Char(ch) and the named keys
KeyChar(ch) == [kind |-> "Char", ch |-> ch]

Key(kind) == [kind |-> kind, ch |-> ""]

\* the pattern 'a'..='z' | 'A'..='Z'
IsLetterKey(code) ==
  /\ code.kind = "Char"
  /\ CharCode(code.ch) \in 97 .. 122 \/ CharCode(code.ch) \in 65 .. 90

\* char::to_ascii_lowercase
ToAsciiLowercase(ch) ==
  IF CharCode(ch) \in 65 .. 90 THEN Alphabet[CharCode(ch) - 64] ELSE ch


\* what handle_event returns: Some(Action::Draw), Some(Action::Exit), None
Handled(a, result) == [app |-> a, action |-> result]

\* handle_key_in_word_mode accepting a letter while the cursor is at 5 too
HandleKeyInWordModeLateGuard(a, code) ==
  IF code.kind = "Backspace" /\ a.cursor > 0
  THEN Handled(SetActiveBlock(SetCursor(a, a.cursor - 1), "contents", NoLetter), "Draw")
  ELSE IF IsLetterKey(code) /\ a.cursor <= 5
  THEN Handled(SetCursor(SetActiveBlock(a, "contents", LetterNew(ToAsciiLowercase(code.ch))),
                         a.cursor + 1),
               "Draw")
  ELSE IF code.kind = "Enter" /\ Len(a.rows) = 0
  THEN Handled(Panic(a, NoRowMessage), "None")
  ELSE IF code.kind = "Enter" /\ HasWord(a)
  THEN LET moved == SetCursor(a, 0)
           entered == AppOf(moved.rows, moved.cursor, TRUE, moved.game, moved.panic,
                            moved.calls)
       IN  Handled(ApplyExpectedFeedback(entered), "Draw")
  ELSE IF code.kind = "Esc"
  THEN Handled(a, "Exit")
  ELSE Handled(a, "None")

\* App::handle_key_in_word_mode
HandleKeyInWordMode(a, code) ==
  IF code.kind = "Backspace" /\ a.cursor > 0
  THEN Handled(SetActiveBlock(SetCursor(a, a.cursor - 1), "contents", NoLetter), "Draw")
  ELSE IF IsLetterKey(code) /\ a.cursor < 5
  THEN Handled(SetCursor(SetActiveBlock(a, "contents", LetterNew(ToAsciiLowercase(code.ch))),
                         a.cursor + 1),
               "Draw")
  ELSE IF code.kind = "Enter" /\ Len(a.rows) = 0
  THEN Handled(Panic(a, NoRowMessage), "None")
  ELSE IF code.kind = "Enter" /\ HasWord(a)
  THEN LET moved == SetCursor(a, 0)
           entered == AppOf(moved.rows, moved.cursor, TRUE, moved.game, moved.panic,
                            moved.calls)
       IN  Handled(ApplyExpectedFeedback(entered), "Draw")
  ELSE IF code.kind = "Esc"
  THEN Handled(a, "Exit")
  ELSE Handled(a, "None")

\* the Enter arm of handle_key_in_feedback_mode
EnterFeedback(a) ==
  LET unselected == SetActiveBlock(a, "selected", FALSE)
  IN  IF unselected.panic # "" THEN unselected
      ELSE LET row == unselected.rows[Len(unselected.rows)]
           IN  IF \E p \in Positions : row[p].contents = NoLetter
               THEN Panic(unselected, "all letters should be set by now")
               ELSE LET guess == [p \in Positions |-> row[p].contents]
                        feedback == [p \in Positions |-> row[p].color]
                        applied == ApplyFeedback(unselected.game, guess, feedback)
                        pushed == AppOf(Append(unselected.rows, RowDefault), unselected.cursor,
                                        unselected.feedback_mode, applied, "",
                                        unselected.calls + 1)
                        moved == SetCursor(pushed, 0)
                    IN  FillSuggestedWord(
                          AppOf(moved.rows, moved.cursor, FALSE, moved.game, moved.panic,
                                moved.calls))

\* App::handle_key_in_feedback_mode
HandleKeyInFeedbackMode(a, code) ==
  CASE code.kind = "Enter" -> Handled(EnterFeedback(a), "Draw")
    [] code.kind = "Right" -> Handled(SetCursor(a, (a.cursor + 1) % 5), "Draw")
    [] code.kind = "Left" -> Handled(SetCursor(a, (a.cursor + 4) % 5), "Draw")
    [] code.kind = "Up" -> Handled(CycleActiveBlock(a), "Draw")
    [] code.kind = "Down" -> Handled(CycleActiveBlock(CycleActiveBlock(a)), "Draw")
    [] code.kind = "Esc" -> Handled(a, "Exit")
    [] OTHER -> Handled(a, "None")

\* Event::Key(key_event) and Event::Resize
KeyEvent(code) == [kind |-> "Key", code |-> code]

Resize == [kind |-> "Resize", code |-> Key("")]

\* App::handle_event
HandleEvent(a, evt) ==
  IF evt.kind = "Key"
  THEN IF a.feedback_mode
       THEN HandleKeyInFeedbackMode(a, evt.code)
       ELSE HandleKeyInWordMode(a, evt.code)
  ELSE Handled(a, "Draw")

\* ------------------------------------------------------------ state
VARIABLES
  word,           \* Simulation.word, the secret (NoWord when a Game is used alone)
  letter_counts,  \* Simulation.letter_counts
  game,           \* the Game: list, filter, stats
  rounds,         \* the items produced so far: the rounds applied to the game,
                  \* and the error item of Simulation::run
  status,         \* of the iterator of Simulation::run: running, done, error
  text,           \* the &str last given to Word::try_from
  parsed,         \* the Result of that call
  shown,          \* to_string() of the parsed word
  LIST,           \* the static LIST: OnceLock<Vec<Word>> of Word::list
  sims,           \* the Simulation instances that exist side by side, each with
                  \* the items its run has produced and the status of its iterator
  alone,          \* for reference: per secret, the states of a run stepped alone
  app,            \* the App: rows, cursor, feedback_mode, game; the panic that
                  \* ended it, if any; the apply_feedback calls it has made
  action,         \* what handle_event returned for the last event
  events          \* the number of events App::run has handled

parseVars == << text, parsed, shown >>

multiVars == << LIST, sims, alone >>

appVars == << app, action, events >>

vars == << word, letter_counts, game, rounds, status, parseVars, multiVars, appVars >>

NoWord == << >>

\* an Ok((guess, feedback)) item, or the record of one apply_feedback call
Round(guess, feedback) == [kind |-> "Ok", word |-> guess, feedback |-> feedback]

\* the Err(eyre!("unknown word ..", self.word)) item
ErrItem(secret) == [kind |-> "Err", word |-> secret, feedback |-> << >>]

\* the secrets simulations are made for: every dictionary word (the batch
\* mode) and words that are not in the dictionary
ExtraSecretTexts ==
  <<
    <<"b","o","n","u","s">>, <<"e","m","c","e","e">>, <<"q","u","i","c","k">>
  >>

Secrets ==
  {WordList[i] : i \in 1 .. DictSize}
    \cup {WordOf(ExtraSecretTexts[i]) : i \in 1 .. NumExtraSecrets}

\* the guesses played against the oracle: any words, suggested or not
OracleGuesses == {WordList[i] : i \in 1 .. NumOracleGuesses}

\* no call of Word::try_from yet
Unparsed == [kind |-> "None", value |-> << >>, error |-> ""]

\* no App has been made
NoApp ==
  /\ app = AppOf(<< >>, 0, FALSE, GameDefault, "", 0)
  /\ action = "None"
  /\ events = 0

NothingParsedNoApp ==
  /\ text = << >>
  /\ parsed = Unparsed
  /\ shown = << >>

NothingParsed ==
  /\ NoApp
  /\ NothingParsedNoApp

\* OnceLock::new() and the cell once Word::list has run
ListUnset == [set |-> FALSE, value |-> << >>]

ListSet == [set |-> TRUE, value |-> WordList]

\* LIST.get_or_init(..): the words file is parsed on the first call only
ListGetOrInit(cell) == IF cell.set THEN cell ELSE ListSet

\* no Simulation instance at an index
NoSim == [word |-> NoWord, letter_counts |-> LetterMapDefault, game |-> GameDefault,
          rounds |-> << >>, status |-> "none"]

\* one Game or Simulation, which has called Word::list, and no other instance
OneInstance ==
  /\ LIST = ListSet
  /\ sims = [i \in 1 .. NumSims |-> NoSim]
  /\ alone = << >>

\* App::new / Game::default: a fresh game used alone, nothing applied yet
Init ==
  /\ NothingParsed
  /\ OneInstance
  /\ word = NoWord
  /\ letter_counts = LetterMapDefault
  /\ game = GameDefault
  /\ rounds = << >>
  /\ status = "running"

\* Simulation::new(secret)
InitSim ==
  /\ NothingParsed
  /\ OneInstance
  /\ \E secret \in Secrets :
       LET sim == SimulationNew(secret)
       IN  /\ word = sim.word
           /\ letter_counts = sim.letter_counts
           /\ game = sim.game
  /\ rounds = << >>
  /\ status = "running"

\* the caller of Game (the interactive collaborator) applies a typed word
\* with the colours it was given: Game::apply_feedback
UserRound(guess, feedback) ==
  /\ Len(rounds) < MaxRounds
  /\ game' = ApplyFeedback(game, guess, feedback)
  /\ rounds' = Append(rounds, Round(guess, feedback))
  /\ UNCHANGED << word, letter_counts, status, parseVars, multiVars, appVars >>

Next == \E guess \in GuessWords, feedback \in FeedbackArrays : UserRound(guess, feedback)

Spec == Init /\ [][Next]_vars

\* a round with a freely chosen guess and the oracle's feedback for it:
\* get_feedback, then Game::apply_feedback
OracleRound(guess) ==
  /\ Len(rounds) < MaxOracleRounds
  /\ LET feedback == GetFeedback(word, letter_counts, guess)
     IN  /\ game' = ApplyFeedback(game, guess, feedback)
         /\ rounds' = Append(rounds, Round(guess, feedback))
  /\ UNCHANGED << word, letter_counts, status, parseVars, multiVars, appVars >>

NextOracle == \E guess \in OracleGuesses : OracleRound(guess)

SpecOracle == InitSim /\ [][NextOracle]_vars

\* next() with take_while in place of take_while_inclusive: the all-Green
\* round ends the run and is not yielded
RunNextExclusive ==
  /\ status = "running"
  /\ \E suggestion \in {SuggestedWord(game)} :
       IF suggestion = << >>
       THEN /\ rounds' = Append(rounds, ErrItem(word))
            /\ status' = "error"
            /\ UNCHANGED game
       ELSE \E feedback \in {GetFeedback(word, letter_counts, suggestion[1])} :
              /\ \E applied \in {ApplyFeedback(game, suggestion[1], feedback)} :
                   game' = applied
              /\ rounds' = IF feedback # AllGreen
                           THEN Append(rounds, Round(suggestion[1], feedback))
                           ELSE rounds
              /\ status' = IF feedback # AllGreen THEN "running" ELSE "done"
  /\ UNCHANGED << word, letter_counts, parseVars, multiVars, appVars >>

\* next() ending the run with no item when there is no suggestion
RunNextSilent ==
  /\ status = "running"
  /\ \E suggestion \in {SuggestedWord(game)} :
       IF suggestion = << >>
       THEN /\ rounds' = rounds
            /\ status' = "done"
            /\ UNCHANGED game
       ELSE \E feedback \in {GetFeedback(word, letter_counts, suggestion[1])} :
              /\ \E applied \in {ApplyFeedback(game, suggestion[1], feedback)} :
                   game' = applied
              /\ rounds' = Append(rounds, Round(suggestion[1], feedback))
              /\ status' = IF feedback # AllGreen THEN "running" ELSE "done"
  /\ UNCHANGED << word, letter_counts, parseVars, multiVars, appVars >>

\* one call of next() on the iterator of Simulation::run: the closure given to
\* iter::from_fn, then the test of take_while_inclusive
RunNext ==
  /\ status = "running"
  /\ \E suggestion \in {SuggestedWord(game)} :
       IF suggestion = << >>
       THEN /\ rounds' = Append(rounds, ErrItem(word))
            /\ status' = "error"
            /\ UNCHANGED game
       ELSE \E feedback \in {GetFeedback(word, letter_counts, suggestion[1])} :
              /\ \E applied \in {ApplyFeedback(game, suggestion[1], feedback)} :
                   game' = applied
              /\ rounds' = Append(rounds, Round(suggestion[1], feedback))
              /\ status' = IF feedback # AllGreen THEN "running" ELSE "done"
  /\ UNCHANGED << word, letter_counts, parseVars, multiVars, appVars >>

NextSim == RunNext

\* the consumer of the iterator drains it (collect / count / for): next() is
\* called again for as long as the iterator has not ended.  This is weak
\* fairness of RunNext, with ENABLED <<RunNext>>_vars written out: RunNext is
\* enabled, and changes rounds, exactly when status is running
RunIsDrained == []<>(status # "running") \/ []<><<RunNext>>_vars

SpecSim == InitSim /\ [][NextSim]_vars /\ RunIsDrained

\* the caller makes up the text character by character
PushChar(ch) ==
  /\ parsed = Unparsed
  /\ Len(text) < MaxTextLen
  /\ text' = Append(text, ch)
  /\ UNCHANGED << word, letter_counts, game, rounds, status, parsed, shown, multiVars, appVars >>

\* Word::try_from(text), the one call of a behaviour: calls share no state
TryFromText ==
  /\ parsed = Unparsed
  /\ parsed' = WordTryFrom(text)
  /\ UNCHANGED << word, letter_counts, game, rounds, status, text, shown, multiVars, appVars >>

\* word.to_string() of the word a call of try_from gave
WordToString ==
  /\ parsed.kind = "Ok"
  /\ shown = << >>
  /\ shown' = WordText(parsed.value)
  /\ UNCHANGED << word, letter_counts, game, rounds, status, text, parsed, multiVars, appVars >>

NextParse ==
  \/ \E i \in 1 .. NumTextChars : PushChar(TextChars[i])
  \/ TryFromText
  \/ WordToString

SpecParse == Init /\ [][NextParse]_vars

\* one call of next() on the iterator of Simulation::run, on a Simulation
\* given as a record: the same closure and test as RunNext
RunStep(sim) ==
  LET suggestion == SuggestedWord(sim.game)
  IN  IF suggestion = << >>
      THEN [word |-> sim.word, letter_counts |-> sim.letter_counts, game |-> sim.game,
            rounds |-> Append(sim.rounds, ErrItem(sim.word)),
            status |-> "error"]
      ELSE LET feedback == GetFeedback(sim.word, sim.letter_counts, suggestion[1])
           IN  [word |-> sim.word, letter_counts |-> sim.letter_counts,
                game |-> ApplyFeedback(sim.game, suggestion[1], feedback),
                rounds |-> Append(sim.rounds, Round(suggestion[1], feedback)),
                status |-> IF feedback # AllGreen THEN "running" ELSE "done"]

\* the secrets of the instances that run side by side: dictionary words and a
\* word that is not in the dictionary
SimSecrets ==
  [k \in 1 .. NumSimSecrets |->
     IF k = 1 THEN WordOf(ExtraSecretTexts[1]) ELSE WordList[k - 1]]

\* a Simulation right after Simulation::new(secret), its run not yet stepped
FreshSim(secret) ==
  LET sim == SimulationNew(secret)
  IN  [word |-> sim.word, letter_counts |-> sim.letter_counts, game |-> sim.game,
       rounds |-> << >>, status |-> "running"]

\* a Simulation with the filter of its game written out entry by entry
WrittenOut(sim) ==
  LET filter == sim.game.filter
  IN  [word |-> sim.word, letter_counts |-> sim.letter_counts,
       game |-> [list |-> sim.game.list,
                 filter |-> [mask |-> << filter.mask[1], filter.mask[2], filter.mask[3],
                                         filter.mask[4], filter.mask[5] >>,
                             min_count |-> filter.min_count @@ filter.min_count],
                 stats |-> sim.game.stats],
       rounds |-> sim.rounds, status |-> sim.status]

RECURSIVE AloneTrace(_, _)
\* the states a Simulation goes through when its run is stepped alone
AloneTrace(sim, trace) ==
  IF sim.status # "running" THEN Append(trace, sim)
  ELSE AloneTrace(WrittenOut(RunStep(sim)), Append(trace, sim))

RECURSIVE AloneRunsLoop(_, _)
AloneRunsLoop(k, runs) ==
  IF k > NumSimSecrets THEN runs
  ELSE AloneRunsLoop(k + 1, Append(runs, AloneTrace(FreshSim(SimSecrets[k]), << >>)))

\* for each of the secrets, in their order, the states of its run alone
AloneRuns == AloneRunsLoop(1, << >>)

\* no Simulation exists yet and the words file has not been read; the
\* variables of the single Game keep their defaults and take no part
InitMulti ==
  /\ NothingParsed
  /\ word = NoWord
  /\ letter_counts = LetterMapDefault
  /\ game = GameDefault
  /\ rounds = << >>
  /\ status = "running"
  /\ LIST = ListUnset
  /\ sims = [i \in 1 .. NumSims |-> NoSim]
  /\ alone = AloneRuns

\* Simulation::new(secret) for the instance at index i: Game::default calls
\* Word::list() and copies the list (to_vec)
NewSim(i, secret) ==
  /\ sims[i] = NoSim
  /\ LIST' = ListGetOrInit(LIST)
  /\ sims' = [sims EXCEPT ![i] = FreshSim(secret)]
  /\ UNCHANGED << word, letter_counts, game, rounds, status, parseVars, alone, appVars >>

\* a step of one instance on a Game all the instances share
StepOfSharedGame(all, i) ==
  [j \in DOMAIN all |->
     IF j = i THEN RunStep(all[i])
     ELSE IF all[j] = NoSim THEN NoSim
     ELSE [word |-> all[j].word, letter_counts |-> all[j].letter_counts,
           game |-> RunStep(all[i]).game,
           rounds |-> all[j].rounds, status |-> all[j].status]]

\* the instances after next() of the run of the instance at index i: the
\* closure holds &mut self of that Simulation only
StepOf(all, i) == [all EXCEPT ![i] = RunStep(all[i])]

StepSim(i) ==
  /\ sims[i].status = "running"
  /\ sims' = StepOf(sims, i)
  /\ UNCHANGED << word, letter_counts, game, rounds, status, parseVars, LIST, alone, appVars >>

NextMulti ==
  \/ \E i \in 1 .. NumSims, k \in 1 .. NumSimSecrets : NewSim(i, SimSecrets[k])
  \/ \E i \in 1 .. NumSims : StepSim(i)

SpecMulti == InitMulti /\ [][NextMulti]_vars

\* the characters the user types: an uppercase letter, a digit, a letter
AppChars == << "A", "1", "e", "z" >>

AppEvents ==
  {KeyEvent(Key(kind)) :
     kind \in {"Backspace", "Enter", "Right", "Left", "Up", "Down", "Esc", "Tab"}}
    \cup {KeyEvent(KeyChar(AppChars[i])) : i \in 1 .. NumAppChars}
    \cup {Resize}

\* App::new, and run about to wait for the first event after its first draw
InitApp ==
  /\ NothingParsedNoApp
  /\ OneInstance
  /\ word = NoWord
  /\ letter_counts = LetterMapDefault
  /\ game = GameDefault
  /\ rounds = << >>
  /\ status = "running"
  /\ app = AppNew
  /\ action = "Draw"
  /\ events = 0

\* one turn of the loop of App::run: the next event is handled; Exit and a
\* panic end the loop
AppEvent(evt) ==
  /\ app.panic = ""
  /\ action # "Exit"
  /\ events < MaxEvents
  /\ \E handled \in {HandleEvent(app, evt)} :
       /\ app' = handled.app
       /\ action' = handled.action
  /\ events' = events + 1
  /\ UNCHANGED << word, letter_counts, game, rounds, status, parseVars, multiVars >>

NextApp == \E evt \in AppEvents : AppEvent(evt)

SpecApp == InitApp /\ [][NextApp]_vars

\* ------------------------------------------------------------ properties
\* the number of positions of a word that carry a letter
CountIn(w, letter) == Cardinality({p \in Positions : w[p] = letter})

\* the positions of a guess that carry a letter and were not coloured Black
Marked(guess, feedback, letter) ==
  {p \in Positions : guess[p] = letter /\ feedback[p] # Black}

Min(a, b) == IF a <= b THEN a ELSE b

OkRounds == {i \in 1 .. Len(rounds) : rounds[i].kind = "Ok"}

\* a guess that repeats a letter, Black at the earlier and Green at a later position
BlackBeforeGreen(guess, feedback) ==
  \E p, q \in Positions :
    p < q /\ guess[p] = guess[q] /\ feedback[p] = Black /\ feedback[q] = Green

Cider == WordOf(<<"c","i","d","e","r">>)

Speed == WordOf(<<"s","p","e","e","d">>)

\* C1: a filter restricted round after round with guesses of any kind and the
\* feedback get_feedback computes against the secret never excludes the secret
C1_SecretAlwaysMatches == Matches(word, game.filter)

\* C1 witness: two rounds applied, one of them with a repeated letter that is
\* Black at an earlier and Green at a later position
C1_Witness ==
  /\ Len(rounds) >= 2
  /\ \E i \in OkRounds : BlackBeforeGreen(rounds[i].word, rounds[i].feedback)

\* C3: the feedback of the oracle (of the round just played) is the official colouring: Green exactly
\* where guess and secret agree, per letter as many Green plus Yellow as
\* min(count in guess, count in secret), Yellow on the leftmost positions that
\* are not Green, and no remaining counter below zero
C3_OfficialColouring ==
  \A i \in OkRounds \cap {Len(rounds)} :
    LET guess == rounds[i].word
        feedback == rounds[i].feedback
    IN  /\ DOMAIN feedback = Positions
        /\ \A p \in Positions : feedback[p] = Green <=> guess[p] = word[p]
        /\ \A l \in Letters :
             Cardinality(Marked(guess, feedback, l)) = Min(CountIn(guess, l), CountIn(word, l))
        /\ \A p, q \in Positions :
             (p < q /\ guess[p] = guess[q] /\ feedback[q] = Yellow) => feedback[p] # Black
        /\ \A l \in Letters :
             GetFeedbackRun(word, letter_counts, guess).missing_letters[l] >= 0

\* C3 witness: a guess with two copies of a letter the secret holds once, one
\* copy coloured and the other left Black
C3_Witness ==
  \E i \in OkRounds : \E p, q \in Positions :
    /\ p # q
    /\ rounds[i].word[p] = rounds[i].word[q]
    /\ CountIn(word, rounds[i].word[p]) = 1
    /\ rounds[i].feedback[p] = Yellow
    /\ rounds[i].feedback[q] = Black

\* C4 as claimed: "speed" against the secret "cider" is coloured
\* [Black, Black, Yellow, Black, Yellow]
C4_AsClaimed ==
  \A i \in OkRounds :
    (word = Cider /\ rounds[i].word = Speed)
      => rounds[i].feedback = << Black, Black, Yellow, Black, Yellow >>

\* C4 amended: "speed" against the secret "cider" is coloured
\* [Black, Black, Black, Green, Yellow]: the second e of the guess stands where
\* the only e of the secret stands
C4_SpeedAgainstCider ==
  \A i \in OkRounds :
    (word = Cider /\ rounds[i].word = Speed)
      => rounds[i].feedback = << Black, Black, Black, Green, Yellow >>

\* C4 witness: "speed" was guessed against "cider"
C4_Witness == \E i \in OkRounds : word = Cider /\ rounds[i].word = Speed

DictionaryWords == {WordList[i] : i \in 1 .. Len(WordList)}

\* C2: for a secret of the dictionary the run has at most as many rounds as
\* the dictionary has words, holds no error item, and ends, its last item an
\* all-Green round
C2_DictionarySecretIsSolved ==
  /\ [](word \in DictionaryWords =>
          /\ Len(rounds) <= Len(WordList)
          /\ status # "error"
          /\ \A i \in 1 .. Len(rounds) : rounds[i].kind = "Ok"
          /\ status = "done" =>
               (rounds # << >> /\ rounds[Len(rounds)].feedback = AllGreen))
  /\ <>(word \in DictionaryWords => status = "done")

\* C2 witness: a run for a dictionary secret that ended after three rounds or more
C2_Witness ==
  /\ word \in DictionaryWords
  /\ status = "done"
  /\ Len(rounds) >= 3
  /\ rounds[Len(rounds)].feedback = AllGreen

\* the round applied last
LastRound == rounds[Len(rounds)]

\* C5 as claimed: whatever word and feedback a restrict call is given, every
\* mask entry after the call is a subset of the same entry before it
C5_AsClaimed ==
  [][\A p \in Positions : game'.filter.mask[p] \subseteq game.filter.mask[p]]_vars

\* C5 amended: every mask entry after a restrict call is a subset of the entry
\* before it at each position whose feedback is not Green; at a Green position
\* the entry becomes the singleton of the guessed letter, also when that letter
\* had been removed from the entry before
C5_MasksShrinkExceptGreen ==
  [][\A p \in Positions :
       IF rounds'[Len(rounds')].feedback[p] = Green
       THEN game'.filter.mask[p] = {rounds'[Len(rounds')].word[p]}
       ELSE game'.filter.mask[p] \subseteq game.filter.mask[p]]_vars

\* C5 witness: a second round was applied whose Green letter the first round
\* had removed from every mask, next to positions that only lost letters
C5_Witness ==
  /\ Len(rounds) = 2
  /\ \E p, q \in Positions :
       /\ rounds[1].word[p] = rounds[2].word[p]
       /\ rounds[1].feedback = [r \in Positions |-> Black]
       /\ rounds[2].feedback[p] = Green
       /\ game.filter.mask[p] = {rounds[2].word[p]}
       /\ rounds[2].feedback[q] = Yellow
       /\ game.filter.mask[q] # FULL

\* C6: applying the restrict call, or the apply_feedback call, just made once
\* more with the same word and feedback changes nothing: filter (mask and
\* min_count), list and stats stay as after the first call
C6_SecondCallChangesNothing ==
  rounds # << >> =>
    /\ Restrict(game.filter, LastRound.word, LastRound.feedback) = game.filter
    /\ ApplyFeedback(game, LastRound.word, LastRound.feedback) = game

\* C6 witness: two rounds applied, the last one with a repeated letter Black
\* before Green and a letter counted, and words left in the list
C6_Witness ==
  /\ Len(rounds) = 2
  /\ BlackBeforeGreen(LastRound.word, LastRound.feedback)
  /\ \E l \in Letters : game.filter.min_count[l] > 0
  /\ Len(game.list) > 0

\* whether an earlier position of the guess carries the letter of position p
\* with a Green or Yellow feedback
EarlierMarked(guess, feedback, p) ==
  \E q \in 1 .. (p - 1) : guess[q] = guess[p] /\ feedback[q] # Black

\* the letters of a guess with a Black position that no earlier Green or Yellow
\* position of the same letter precedes
AbsentLetters(guess, feedback) ==
  {guess[p] : p \in {q \in Positions : feedback[q] = Black /\ ~ EarlierMarked(guess, feedback, q)}}

\* the filter one round leaves, stated position by position
RoundEffect(before, guess, feedback) ==
  [mask |-> [p \in Positions |->
               IF feedback[p] = Green THEN {guess[p]}
               ELSE before.mask[p] \ ({guess[p]} \cup AbsentLetters(guess, feedback))],
   min_count |-> [l \in Letters |->
               Max(before.min_count[l], Cardinality(Marked(guess, feedback, l)))]]

Ready == WordOf(<<"r","e","a","d","y">>)

ReadyMatching == {WordOf(<<"c","a","r","d","i">>), WordOf(<<"b","a","r","d","s">>)}

ReadyFailing ==
  {Ready, WordOf(<<"s","p","l","i","t">>), WordOf(<<"b","o","u","g","h">>)}

ReadyFeedback == << Yellow, Black, Yellow, Green, Black >>

\* the filter test_matches expects after "ready" on a fresh filter
ReadyFilter ==
  [mask |-> << FULL \ {LetterNew("r"), LetterNew("e"), LetterNew("y")},
               FULL \ {LetterNew("e"), LetterNew("y")},
               FULL \ {LetterNew("e"), LetterNew("a"), LetterNew("y")},
               {LetterNew("d")},
               FULL \ {LetterNew("e"), LetterNew("y")} >>,
   min_count |-> [l \in Letters |->
                    IF l \in {LetterNew("r"), LetterNew("a"), LetterNew("d")} THEN 1 ELSE 0]]

\* C7: a restrict round leaves at a Green position the singleton of its letter;
\* at any other position the mask without the position's own letter and without
\* the letters that were Black with no earlier Green or Yellow of the same
\* letter; and as min_count the larger of the old value and the number of Green
\* or Yellow positions of the letter.  On a fresh filter "ready" with
\* [Yellow, Black, Yellow, Green, Black] gives the filter of test_matches, which
\* "cardi" and "bards" match and "ready", "split", "bough" do not
C7_RoundEffect ==
  /\ [][game'.filter =
          RoundEffect(game.filter, rounds'[Len(rounds')].word, rounds'[Len(rounds')].feedback)]_vars
  /\ []((Len(rounds) = 1 /\ rounds[1].word = Ready /\ rounds[1].feedback = ReadyFeedback)
          => /\ game.filter = ReadyFilter
             /\ \A w \in ReadyMatching : Matches(w, game.filter)
             /\ \A w \in ReadyFailing : ~ Matches(w, game.filter))

\* C7 witness: "ready" with [Yellow, Black, Yellow, Green, Black] was applied
\* to the fresh filter
C7_Witness ==
  /\ Len(rounds) = 1
  /\ rounds[1].word = Ready
  /\ rounds[1].feedback = ReadyFeedback
  /\ game.filter = ReadyFilter

\* the words matches is probed with
ProbeWords ==
  GuessWords \cup ReadyMatching \cup ReadyFailing
    \cup {WordOf(<<"e","e","r","i","e">>), WordOf(<<"e","l","i","d","e">>)}

\* C8: a word matches a filter exactly if each of its letters is in the mask
\* of its position and it holds every letter at least min_count times
C8_MatchesIff ==
  \A w \in ProbeWords :
    Matches(w, game.filter) <=>
      /\ \A p \in Positions : w[p] \in game.filter.mask[p]
      /\ \A l \in Letters : CountIn(w, l) >= game.filter.min_count[l]

\* C8 witness: a filter that one probed word passes, that a second passes by
\* its masks but fails by a minimum count, and that a third fails by a mask
C8_Witness ==
  /\ \E w \in ProbeWords : Matches(w, game.filter)
  /\ \E w \in ProbeWords :
       /\ \A p \in Positions : w[p] \in game.filter.mask[p]
       /\ \E l \in Letters : CountIn(w, l) < game.filter.min_count[l]
  /\ \E w \in ProbeWords : \E p \in Positions : w[p] \notin game.filter.mask[p]

\* whether the official colouring of every applied guess against w is the
\* feedback that was applied for the guess
Consistent(w) ==
  \A i \in OkRounds : GetFeedback(w, LetterCount(w), rounds[i].word) = rounds[i].feedback

ConsistentWords == {w \in DictionaryWords : Consistent(w)}

Pool == {game.list[i] : i \in 1 .. Len(game.list)}

\* C9 as claimed: the pool is exactly the set of dictionary words consistent
\* with all feedback applied
C9_AsClaimed == Pool = ConsistentWords

\* C9 amended: the pool holds every dictionary word consistent with all
\* feedback applied, and may hold words that are not: the filter records no
\* upper bound of a letter's count
C9_PoolHoldsConsistentWords == ConsistentWords \subseteq Pool

\* C9 witness: after two rounds the pool holds a consistent word and a word
\* that is not consistent
C9_Witness ==
  /\ Len(rounds) = 2
  /\ ConsistentWords # {}
  /\ ConsistentWords \subseteq Pool
  /\ Pool \ ConsistentWords # {}

\* C10: the stats are the LetterStats built from the current list: total is
\* the length of the list, the initial total less the removed words, and
\* counts[x][y] the number of listed words that hold both x and y
C10_StatsOfList ==
  /\ game.stats = FromIter(game.list)
  /\ game.stats.total = Len(game.list)
  /\ \A x, y \in Letters :
       game.stats.counts[x][y] =
         Cardinality({i \in 1 .. Len(game.list) :
                        x \in LetterSetFromWord(game.list[i]) /\ y \in LetterSetFromWord(game.list[i])})

\* C10 witness: two rounds removed words, one of them with a repeated letter,
\* and kept others
C10_Witness ==
  /\ Len(rounds) = 2
  /\ Len(game.list) > 1
  /\ Len(game.list) < Len(WordList) - 5
  /\ \E w \in DictionaryWords \ Pool : \E p, q \in Positions : p # q /\ w[p] = w[q]

\* the sub-sequence of a list whose words match a filter, in the list's order
MatchingOf(list, filter) == SelectSeq(list, LAMBDA w : Matches(w, filter))

\* C11: a call of apply_feedback leaves as list exactly the sub-sequence of
\* the list before it whose words match the updated filter, in the same
\* order; no word is added, so a removed word never comes back; and every
\* word of the pool matches the current filter
C11_ListIsRetainedSubsequence ==
  /\ [][ /\ game'.list = MatchingOf(game.list, game'.filter)
         /\ {game'.list[i] : i \in 1 .. Len(game'.list)} \subseteq Pool
         /\ Len(game'.list) <= Len(game.list) ]_vars
  /\ [](\A i \in 1 .. Len(game.list) : Matches(game.list[i], game.filter))

\* C11 witness: two rounds, the second of which removed words from a list the
\* first had already shortened, and left more than one word
C11_Witness ==
  /\ Len(rounds) = 2
  /\ Len(game.list) > 1
  /\ Len(game.list) < Len(MatchingOf(WordList, Restrict(FilterDefault, rounds[1].word, rounds[1].feedback)))
  /\ Len(MatchingOf(WordList, Restrict(FilterDefault, rounds[1].word, rounds[1].feedback))) < Len(WordList)

\* C12: suggested_words(n) yields min(n, pool size) words of the pool, and
\* no word of the pool it leaves out has a strictly larger relevance than a
\* word it yields; suggested_word() is the first of suggested_words(1) and is
\* None exactly when the pool is empty
C12_SuggestionsAreMostRelevant ==
  /\ \A n \in 0 .. MaxSuggested :
       LET yielded == SuggestedWords(game, n)
           words == {yielded[k] : k \in 1 .. Len(yielded)}
       IN  /\ Len(yielded) = Min(n, Len(game.list))
           /\ Cardinality(words) = Len(yielded)
           /\ words \subseteq Pool
           /\ \A out \in Pool \ words : \A k \in 1 .. Len(yielded) :
                Relevance(game.stats, out) <= Relevance(game.stats, yielded[k])
  /\ SuggestedWord(game) = SuggestedWords(game, 1)
  /\ (SuggestedWord(game) = << >>) <=> (Len(game.list) = 0)

\* C12 witness: a pool of more words than are asked for, whose words differ in
\* relevance, and among them a word left out that is as relevant as a
\* yielded one
C12_Witness ==
  /\ Len(rounds) >= 1
  /\ Len(game.list) > MaxSuggested
  /\ \E v, w \in Pool : Relevance(game.stats, v) < Relevance(game.stats, w)
  /\ LET yielded == SuggestedWords(game, MaxSuggested)
     IN  \E out \in Pool \ {yielded[k] : k \in 1 .. Len(yielded)} :
           Relevance(game.stats, out) = Relevance(game.stats, yielded[Len(yielded)])

\* the term of relevance for one letter
RelevanceTerm(stats, x) ==
  stats.total - AbsDiff(stats.counts[x][x], stats.total \div 2)

\* C13: the relevance of a word is the sum, over its distinct letters x, of
\* total - |counts[x][x] - floor(total / 2)|; no letter's term exceeds total,
\* and a letter's term is total exactly when the letter is in floor(total / 2)
\* of the candidates
C13_RelevanceIsSumOverDistinctLetters ==
  /\ \A w \in DictionaryWords \cup ProbeWords :
       LET first(p) == \A q \in 1 .. (p - 1) : w[q] # w[p]
           term(p) == IF first(p) THEN RelevanceTerm(game.stats, w[p]) ELSE 0
       IN  Relevance(game.stats, w) = term(1) + term(2) + term(3) + term(4) + term(5)
  /\ \A x \in Letters :
       /\ RelevanceTerm(game.stats, x) <= game.stats.total
       /\ (RelevanceTerm(game.stats, x) = game.stats.total)
            <=> (game.stats.counts[x][x] = game.stats.total \div 2)

\* C13 witness: a round left several candidates, one of them with a repeated
\* letter, a letter is in exactly half of them and another letter is not
C13_Witness ==
  /\ Len(rounds) >= 1
  /\ game.stats.total >= 4
  /\ game.stats.total % 2 = 0
  /\ \E w \in Pool : \E p, q \in Positions : p # q /\ w[p] = w[q]
  /\ \E x, y \in Letters :
       /\ 2 * game.stats.counts[x][x] = game.stats.total
       /\ game.stats.counts[y][y] > 0
       /\ RelevanceTerm(game.stats, y) < RelevanceTerm(game.stats, x)

\* C18: after a call of restrict, min_count of every letter is the maximum of
\* its value before the call and the number of Green or Yellow positions of
\* the round that carry the letter; it never decreases and never exceeds 5
C18_MinCountIsRunningMaximum ==
  [][ LET round == rounds'[Len(rounds')]
      IN  \A l \in Letters :
            /\ game'.filter.min_count[l] =
                 Max(game.filter.min_count[l], Cardinality(Marked(round.word, round.feedback, l)))
            /\ game'.filter.min_count[l] >= game.filter.min_count[l]
            /\ game'.filter.min_count[l] <= WordLen ]_vars

\* C18 witness: a second round marked a letter at fewer positions than the
\* first, and the letter keeps the count of the first; another letter's
\* count was raised by the second round
C18_Witness ==
  /\ Len(rounds) = 2
  /\ \E l \in Letters :
       /\ Cardinality(Marked(rounds[1].word, rounds[1].feedback, l)) = 2
       /\ Cardinality(Marked(rounds[2].word, rounds[2].feedback, l)) = 1
       /\ game.filter.min_count[l] = 2
  /\ \E l \in Letters :
       /\ Cardinality(Marked(rounds[1].word, rounds[1].feedback, l)) = 0
       /\ game.filter.min_count[l] = 1

\* C19: in every state of a Game no counter of the stats has been taken
\* below zero by remove_word, counts[x][x] <= total for every letter x, the
\* subtraction of relevance stays at or above zero, and every letter's term
\* of relevance lies between floor(total / 2) and total
C19_StatsStayInBounds ==
  LET total == game.stats.total
      counts == game.stats.counts
  IN  /\ total >= 0
      /\ \A x \in Letters :
           /\ \A y \in Letters : counts[x][y] >= 0 /\ counts[x][y] <= counts[x][x]
           /\ counts[x][x] <= total
           /\ AbsDiff(counts[x][x], total \div 2) <= total
           /\ RelevanceTerm(game.stats, x) >= total \div 2
           /\ RelevanceTerm(game.stats, x) <= total

\* C19 witness: two rounds removed words; a letter is in every remaining
\* candidate, so its term is at the lower bound, and the count of a letter
\* the dictionary holds has gone down to zero
C19_Witness ==
  /\ Len(rounds) = 2
  /\ game.stats.total >= 2
  /\ \E x \in Letters :
       /\ game.stats.counts[x][x] = game.stats.total
       /\ RelevanceTerm(game.stats, x) = game.stats.total \div 2
  /\ \E y \in Letters :
       /\ GameDefault.stats.counts[y][y] > 0
       /\ game.stats.counts[y][y] = 0

\* C20: whatever the filter, a guess restricted with a feedback that is not
\* all Green does not match the filter afterwards; so in a run every round
\* that does not end it takes at least the guess out of the pool, and no word
\* is guessed twice
C20_GuessIsEliminated ==
  /\ \A g \in ProbeWords \cup GuessWords : \A feedback \in FeedbackArrays \ {AllGreen} :
       ~Matches(g, Restrict(game.filter, g, feedback))
  /\ \A i \in OkRounds :
       rounds[i].feedback # AllGreen =>
         /\ rounds[i].word \notin Pool
         /\ Len(game.list) <= Len(WordList) - i
  /\ \A i, j \in OkRounds : i # j => rounds[i].word # rounds[j].word

\* C20 witness: a run of at least three rounds, the last of them all Green
C20_Witness ==
  /\ Len(rounds) >= 3
  /\ status = "done"
  /\ \A i \in 1 .. (Len(rounds) - 1) : rounds[i].word \notin Pool /\ rounds[i].word # word
  /\ Pool = {word}

\* C14: every item of a run but the last is a successful round whose
\* feedback is not all Green; a round's feedback is all Green exactly if its
\* guess is the secret; the run ends with, and right after, its first
\* all-Green round, and yields nothing once ended; for the secret "ready" a
\* guess of "ready" is coloured all Green and is the last item of the run
C14_RunEndsWithFirstAllGreen ==
  /\ [](\A i \in 1 .. (Len(rounds) - 1) :
          rounds[i].kind = "Ok" /\ rounds[i].feedback # AllGreen)
  /\ [](\A i \in OkRounds : (rounds[i].feedback = AllGreen) <=> (rounds[i].word = word))
  /\ []((status = "done") <=>
          (Len(rounds) > 0 /\ LastRound.kind = "Ok" /\ LastRound.feedback = AllGreen))
  /\ [][status = "running" /\ Len(rounds') = Len(rounds) + 1]_vars
  /\ [](word = Ready =>
          /\ GetFeedback(word, letter_counts, Ready) = AllGreen
          /\ \A i \in OkRounds :
               rounds[i].word = Ready =>
                 rounds[i].feedback = AllGreen /\ i = Len(rounds) /\ status = "done")

\* C14 witness: the run for the secret "ready" has ended with the guess
\* "ready" after rounds that were not all Green
C14_Witness ==
  /\ word = Ready
  /\ status = "done"
  /\ Len(rounds) >= 2
  /\ LastRound.word = Ready
  /\ LastRound.feedback = AllGreen
  /\ rounds[1].feedback # AllGreen

\* C15: when suggested_word() gives None in a run, the pool being empty, the
\* run yields one error item, as its last item, and has ended; an error item
\* comes from nothing else.  For a secret that is not in the dictionary the
\* run reports no all-Green round and after at most as many rounds as the
\* dictionary has words ends with the error item
C15_EmptyPoolEndsRunWithError ==
  /\ [][ /\ status # "error"
         /\ (SuggestedWord(game) = << >>) <=> (rounds'[Len(rounds')].kind = "Err")
         /\ (SuggestedWord(game) = << >>) =>
              /\ Len(game.list) = 0
              /\ rounds' = Append(rounds, ErrItem(word))
              /\ status' = "error" ]_vars
  /\ []((status = "error") <=> (Len(rounds) > 0 /\ LastRound.kind = "Err"))
  /\ [](\A i \in 1 .. (Len(rounds) - 1) : rounds[i].kind = "Ok")
  /\ [](word \notin DictionaryWords =>
          /\ status # "done"
          /\ \A i \in OkRounds : rounds[i].feedback # AllGreen
          /\ Len(rounds) <= Len(WordList) + 1)
  /\ <>(word \notin DictionaryWords => status = "error")

\* C15 witness: the run for a secret that is not in the dictionary has ended
\* with the error item after at least two rounds emptied the pool
C15_Witness ==
  /\ word \notin DictionaryWords
  /\ status = "error"
  /\ Len(rounds) >= 3
  /\ Len(game.list) = 0
  /\ LastRound = ErrItem(word)

\* C16: Word::try_from(text) succeeds exactly if the text has 5 characters
\* and each is a lowercase ASCII letter; the word it gives holds the letters
\* of the text, formats back to the text, and the formatted text parses to
\* the same word
C16_ParseAcceptsFiveLowercase ==
  /\ parsed # Unparsed =>
       /\ parsed = WordTryFrom(text)
       /\ (parsed.kind = "Ok") <=>
            /\ Len(text) = 5
            /\ \A k \in 1 .. Len(text) : \E i \in 1 .. NumLetters : text[k] = Alphabet[i]
       /\ parsed.kind = "Ok" =>
            /\ WordText(parsed.value) = text
            /\ WordTryFrom(WordText(parsed.value)) = parsed
            /\ \A p \in Positions : parsed.value[p] \in Letters /\ Alphabet[parsed.value[p] + 1] = text[p]
  /\ shown # << >> => shown = text /\ WordTryFrom(shown) = parsed

\* C16 witness: a text of 5 lowercase letters, not all the same, was parsed
\* and formatted back
C16_Witness ==
  /\ parsed.kind = "Ok"
  /\ shown = text
  /\ \E p, q \in Positions : text[p] # text[q]

\* C16 witness of the refusals: a text of 5 characters one of which is no
\* lowercase letter
C16_RefusalReached ==
  /\ parsed.kind = "Err"
  /\ Len(text) = 5
  /\ \E p \in Positions : text[p] = "A"

\* the states of the run alone for the secret of a Simulation
AloneRun(sim) == alone[CHOOSE k \in 1 .. NumSimSecrets : SimSecrets[k] = sim.word]

\* an instance is in the state its run alone is in after as many steps
SameAsAlone(sim) ==
  /\ Len(sim.rounds) < Len(AloneRun(sim))
  /\ sim = AloneRun(sim)[Len(sim.rounds) + 1]

\* C17: instances stepped in any interleaving: after every step each
\* instance has produced the items, and holds the list, filter and stats, of
\* the same number of steps taken alone; a step of one instance changes no
\* other instance; the shared dictionary, once read, is never modified, and
\* every instance's list is drawn from it
C17_InstancesAreIsolated ==
  [][ /\ \A i \in 1 .. NumSims : sims'[i] # NoSim => SameAsAlone(sims'[i])
      /\ Cardinality({j \in 1 .. NumSims : sims'[j] # sims[j]}) <= 1
      /\ LIST.set => LIST' = LIST
      /\ LIST'.set /\ LIST'.value = WordList
      /\ \A i \in 1 .. NumSims :
           \A k \in 1 .. Len(sims'[i].game.list) :
             \E n \in 1 .. Len(LIST'.value) : LIST'.value[n] = sims'[i].game.list[k] ]_vars

\* RunNext and RunStep are the same step: a step of the single Simulation
\* is the step RunStep computes from its record
RunNextIsRunStep ==
  [][ [word |-> word', letter_counts |-> letter_counts', game |-> game',
       rounds |-> rounds', status |-> status']
        = RunStep([word |-> word, letter_counts |-> letter_counts, game |-> game,
                   rounds |-> rounds, status |-> status]) ]_vars

\* C17 witness: two instances with different secrets have both ended, one of
\* them in the error item, after steps of the one were taken between steps of
\* the other
C17_Witness ==
  /\ sims[1].status = "done"
  /\ sims[2].status = "error"
  /\ Len(sims[1].rounds) >= 2
  /\ Len(sims[2].rounds) >= 2
  /\ sims[1].game # sims[2].game

\* C21: when the run for a secret of the dictionary has ended with its
\* all-Green round, the list of the game holds one word, the secret, and
\* the mask of every position is the singleton of the secret's letter there
C21_SolvedRunLeavesTheSecret ==
  (word \in DictionaryWords /\ status = "done") =>
    /\ Len(game.list) = 1
    /\ game.list[1] = word
    /\ \A p \in Positions : game.filter.mask[p] = LetterSetFrom1(word[p])

\* C21 witness: a run of at least three rounds has ended for a secret of the
\* dictionary that repeats a letter, and the list is the secret alone
C21_Witness ==
  /\ word \in DictionaryWords
  /\ status = "done"
  /\ Len(rounds) >= 3
  /\ \E p, q \in Positions : p # q /\ word[p] = word[q]
  /\ game.list = << word >>
  /\ game.filter.min_count[word[1]] >= 1

\* the App has met no asserted panic and none is one event away
AppIsSound(a) ==
  /\ a.panic = ""
  /\ Len(a.rows) >= 1
  /\ Len(a.rows) = a.calls + 1
  /\ a.cursor <= (IF a.feedback_mode THEN 4 ELSE 5)
  /\ a.feedback_mode => HasWord(a)

\* C22: after any sequence of key and resize events from App::new no asserted
\* panic has happened: rows is not empty and holds one row more than the
\* apply_feedback calls made, the cursor is at most 5 in word mode and at most
\* 4 in feedback mode, every letter of the last row is set in feedback mode,
\* and feedback mode is entered only from word mode with a full last row
C22_AppPanicsAreUnreachable ==
  [][(events' > 0) =>
       /\ AppIsSound(app')
       /\ (app'.feedback_mode /\ ~app.feedback_mode) => HasWord(app)]_vars

\* the user typed a row to the end, entered feedback mode and gave feedback
\* for it: one apply_feedback call and a second row
C22_Witness ==
  /\ events > 0
  /\ app.panic = ""
  /\ app.calls = 1
  /\ Len(app.rows) = 2
  /\ ~app.feedback_mode
  /\ \A p \in Positions : app.rows[1][p].contents = LetterNew("a")
====
